---- MODULE Spec2Model ----
(***************************************************************************)
(* A model of the trader-config parser and formatter of src/src/main.rs.   *)
(* Text is a sequence of one-character strings; the Peekable<Chars> cursor *)
(* is a 1-based index `pos` of the next character (pos = Len + 1 at end).  *)
(* Option<T> is a sequence of length 0 (None) or 1 (Some).                 *)
(***************************************************************************)
EXTENDS Integers, Sequences, FiniteSets, TLC

\* ------------------------------------------------------------------------
\* Characters and strings
\* ------------------------------------------------------------------------

EOF == "EOF"

Peek(s, p) == IF p >= 1 /\ p <= Len(s) THEN s[p] ELSE EOF

\* Iterator::next on the cursor: one step forward, a no-op at the end.
NextPos(s, p) == IF p <= Len(s) THEN p + 1 ELSE p


WhiteSpace == {" ", "\t", "\n", "\r"}

LineEnd == {"\n", "\r"}

RECURSIVE TrimStart(_)
TrimStart(t) ==
    IF t # <<>> /\ Head(t) \in WhiteSpace THEN TrimStart(Tail(t)) ELSE t

RECURSIVE TrimEnd(_)
TrimEnd(t) ==
    IF t # <<>> /\ t[Len(t)] \in WhiteSpace
    THEN TrimEnd(SubSeq(t, 1, Len(t) - 1))
    ELSE t

\* str::trim
Trim(t) == TrimEnd(TrimStart(t))

RECURSIVE Concat(_)
Concat(ss) == IF ss = <<>> THEN <<>> ELSE Head(ss) \o Concat(Tail(ss))

RECURSIVE Spaces(_)
Spaces(n) == IF n <= 0 THEN <<>> ELSE <<" ">> \o Spaces(n - 1)

PADDING == 60

KwCurrencyName == <<"C","u","r","r","e","n","c","y","N","a","m","e">>
KwCurrency == <<"C","u","r","r","e","n","c","y">>
KwTrader == <<"T","r","a","d","e","r">>
KwCategory == <<"C","a","t","e","g","o","r","y">>
KwOpenFile == <<"O","p","e","n","F","i","l","e">>
KwFileEnd == <<"F","i","l","e","E","n","d">>

\* ------------------------------------------------------------------------
\* Cursor helpers
\* ------------------------------------------------------------------------

RECURSIVE consume_spaces(_, _)
consume_spaces(s, p) ==
    IF p <= Len(s) /\ s[p] \in {" ", "\t", "\n", "\r"}
    THEN consume_spaces(s, p + 1)
    ELSE p

RECURSIVE consume_only_spaces(_, _)
consume_only_spaces(s, p) ==
    IF p <= Len(s) /\ s[p] \in {" ", "\t", "\n"}
    THEN consume_only_spaces(s, p + 1)
    ELSE p

\* The position of the first line-end character at or after p (Len + 1 if none).
RECURSIVE LineStop(_, _)
LineStop(s, p) ==
    IF p <= Len(s) /\ s[p] \notin LineEnd THEN LineStop(s, p + 1) ELSE p

\* ------------------------------------------------------------------------
\* The record of a sub-parser call
\* ------------------------------------------------------------------------

\* One sub-parser call: its result ("none", "some", "err"), the cursor before
\* and after, and what it returned (a Comment's message or a Line's text in
\* text, a CSVLine's values in values, the trailing comment in comment).
Call(fn, before, after, res, text, values, comment) ==
    [fn |-> fn, before |-> before, after |-> after, res |-> res,
     text |-> text, values |-> values, comment |-> comment]

NoneCall(fn, before, after) == Call(fn, before, after, "none", <<>>, <<>>, <<>>)

CommentCall(before, cm) ==
    Call("parse_comment", before, cm.pos, IF cm.some THEN "some" ELSE "none",
         cm.msg, <<>>, <<>>)

\* ------------------------------------------------------------------------
\* parse_comment
\* ------------------------------------------------------------------------

\* The test of lines 516-525: no match only when neither the next character
\* nor the one after it is '/'.
CommentStarts(s, p) == Peek(s, p) = "/" \/ Peek(s, p + 1) = "/"

parse_comment(s, p) ==
    LET p1 == consume_spaces(s, p) IN
    IF ~CommentStarts(s, p1)
    THEN [some |-> FALSE, pos |-> p1, msg |-> <<>>]
    ELSE LET p2 == NextPos(s, NextPos(s, p1))
             p3 == consume_spaces(s, p2)
             e  == LineStop(s, p3)
         IN [some |-> TRUE, pos |-> NextPos(s, e), msg |-> SubSeq(s, p3, e - 1)]

\* ------------------------------------------------------------------------
\* Tag recognition: the head shared by parse_currency_name, parse_currency,
\* parse_trader, parse_trader_category, parse_open_file and parse_file_end
\* ------------------------------------------------------------------------

\* The `for c in ichars` loop: the first position at or after p holding
\* '>', '/' or a line end (Len + 1 if the input ends first).
RECURSIVE TagStop(_, _)
TagStop(s, p) ==
    IF p <= Len(s) /\ s[p] \notin {">", "/", "\n", "\r"}
    THEN TagStop(s, p + 1)
    ELSE p

\* res: "none" (Ok(None)), "err" (Err) or "some" (tag matched and consumed).
\* pos is the cursor the caller is left with.
TagHead(s, p, kw) ==
    LET p1 == consume_spaces(s, p) IN
    IF Peek(s, p1) # "<"
    THEN [res |-> "none", pos |-> p1]
    ELSE LET q == TagStop(s, p1 + 1)
             internal_idx == q - (p1 + 1)
             txt == SubSeq(s, p1 + 1, q - 1)
         IN IF Peek(s, q) \in LineEnd
            THEN [res |-> "err", pos |-> p1]
            ELSE IF txt # kw
            THEN [res |-> "none", pos |-> p1]
            ELSE IF Len(s) - p1 + 1 < internal_idx + 2
            THEN [res |-> "err", pos |-> Len(s) + 1]
            ELSE [res |-> "some", pos |-> p1 + internal_idx + 2]

parse_currency_name_tag(s, p) == TagHead(s, p, KwCurrencyName)

parse_currency_tag(s, p) == TagHead(s, p, KwCurrency)

parse_trader_tag(s, p) == TagHead(s, p, KwTrader)

parse_trader_category_tag(s, p) == TagHead(s, p, KwCategory)

parse_open_file_tag(s, p) == TagHead(s, p, KwOpenFile)

parse_file_end_tag(s, p) == TagHead(s, p, KwFileEnd)

\* ------------------------------------------------------------------------
\* parse_line
\* ------------------------------------------------------------------------

\* The first position at or after p holding a line end or '/'.
RECURSIVE TextStop(_, _)
TextStop(s, p) ==
    IF p <= Len(s) /\ s[p] \notin {"\n", "\r", "/"}
    THEN TextStop(s, p + 1)
    ELSE p

\* What parse_line keeps as text when its loop stops at q having collected
\* raw: trimmed at a line end, as collected at a '/' or at the end of input.
LineText(s, q, raw) == IF Peek(s, q) \in LineEnd THEN Trim(raw) ELSE raw

parse_line(s, p) ==
    LET p1  == consume_only_spaces(s, p)
        q   == TextStop(s, p1)
        raw == SubSeq(s, p1, q - 1)
    IN IF Peek(s, q) = "/"
       THEN LET cm == parse_comment(s, q)
            IN [text |-> LineText(s, q, raw),
                comment |-> IF cm.some THEN <<cm.msg>> ELSE <<>>,
                pos |-> cm.pos,
                calls |-> {CommentCall(q, cm)}]
       ELSE [text |-> LineText(s, q, raw), comment |-> <<>>, pos |-> NextPos(s, q),
             calls |-> {}]

\* The calls a parse_line call at p that returned l is made of.
LineCall(p, l) ==
    {Call("parse_line", p, l.pos, "some", l.text, <<>>, l.comment)} \cup l.calls

Line(l) == [text |-> l.text, comment |-> l.comment]

\* ------------------------------------------------------------------------
\* The token tree
\* ------------------------------------------------------------------------

Comment(msg) == [type |-> "Comment", msg |-> msg]

\* impl TryFrom<&CSVLine> for CategoryItem: defined when there are 4 values.
CategoryItemOk(values) == Len(values) = 4

CategoryItem(values, comment) ==
    [type |-> "CategoryItem", class |-> values[1], amount |-> values[2],
     buy_value |-> values[3], sell_value |-> values[4], comment |-> comment]

\* ------------------------------------------------------------------------
\* Formatter (the Display impls)
\* ------------------------------------------------------------------------

fmt_Comment(msg) == <<"/", "/", " ">> \o msg

fmt_OptComment(c) == IF c = <<>> THEN <<>> ELSE fmt_Comment(c[1])

fmt_Line(l) == l.text \o <<" ">> \o fmt_OptComment(l.comment) \o <<"\n">>

\* {:0width$} on a String: padded with spaces on the right up to PADDING.
Pad(str) == str \o Spaces(PADDING - Len(str))

RECURSIVE fmt_CSVValues(_, _)
fmt_CSVValues(values, i) ==
    IF i > Len(values) THEN <<>>
    ELSE Pad(values[i] \o (IF i # Len(values) THEN <<",">> ELSE <<>>))
         \o fmt_CSVValues(values, i + 1)

fmt_CSVLine(c) ==
    fmt_CSVValues(c.values, 1)
    \o (IF c.comment = <<>> THEN <<>> ELSE <<" ">> \o fmt_Comment(c.comment[1]))
    \o <<"\n">>

fmt_CurrencyToken(c) ==
    IF c.type = "Comment" THEN fmt_Comment(c.msg) ELSE fmt_CSVLine(c)

RECURSIVE fmt_Currencies(_)
fmt_Currencies(cs) ==
    IF cs = <<>> THEN <<>>
    ELSE Spaces(4) \o fmt_CurrencyToken(Head(cs)) \o fmt_Currencies(Tail(cs))

fmt_CurrencyName(c) ==
    <<"<">> \o KwCurrencyName \o <<">", " ">> \o fmt_Line(c.name)
    \o fmt_Currencies(c.currencies)

fmt_CategoryItem(c) ==
    Spaces(8) \o c.class \o <<",">> \o c.amount \o <<",">> \o c.buy_value
    \o <<",">> \o c.sell_value \o fmt_OptComment(c.comment)

fmt_CategoryItemToken(c) ==
    IF c.type = "Comment" THEN <<"\t">> \o fmt_Comment(c.msg) ELSE fmt_CategoryItem(c)

RECURSIVE fmt_Items(_)
fmt_Items(is) ==
    IF is = <<>> THEN <<>>
    ELSE Spaces(8) \o fmt_CategoryItemToken(Head(is)) \o fmt_Items(Tail(is))

fmt_TraderCategory(c) ==
    Spaces(4) \o <<"<">> \o KwCategory \o <<">", " ">> \o fmt_Line(c.name)
    \o fmt_Items(c.items)

fmt_TraderCategoryToken(c) ==
    IF c.type = "Comment" THEN <<"\t">> \o fmt_Comment(c.msg) ELSE fmt_TraderCategory(c)

RECURSIVE fmt_Categories(_)
fmt_Categories(cs) ==
    IF cs = <<>> THEN <<>>
    ELSE fmt_TraderCategoryToken(Head(cs)) \o fmt_Categories(Tail(cs))

fmt_Trader(t) ==
    <<"<">> \o KwTrader \o <<">", " ">> \o fmt_Line(t.name)
    \o fmt_Categories(t.categories)

fmt_OpenFile(o) == <<"<">> \o KwOpenFile \o <<">", " ">> \o fmt_Line(o.line)

fmt_FileEnd(o) == <<"<">> \o KwFileEnd \o <<">", " ">> \o fmt_Line(o.line)

fmt_Token(t) ==
    CASE t.type = "Comment" -> fmt_Comment(t.msg)
      [] t.type = "CurrencyName" -> fmt_CurrencyName(t)
      [] t.type = "Trader" -> fmt_Trader(t)
      [] t.type = "OpenFile" -> fmt_OpenFile(t)
      [] t.type = "FileEnd" -> fmt_FileEnd(t)

\* The loop of work: println! of every token, in order.
RECURSIVE PrintAll(_)
PrintAll(ts) ==
    IF ts = <<>> THEN <<>>
    ELSE fmt_Token(Head(ts)) \o <<"\n">> \o PrintAll(Tail(ts))

\* ------------------------------------------------------------------------
\* State
\* ------------------------------------------------------------------------

VARIABLES
    doc,      \* how the input text was put together (which family, which parts)
    input,    \* contents: the text process_file is given
    pos,      \* chars: the cursor
    pc,       \* where the parser is: "top", "currencies", "categories", "items",
              \* "csv", or finished: "done" (Ok(tokens)), "err" (Err)
    tokens,   \* process_file's tokens
    cur,      \* the CurrencyName or Trader being built: its name and entries
    cat,      \* the TraderCategory being built: its name and items
    csv,      \* parse_csv_line's locals, its caller and the cursor it was given
    error,    \* which Err process_file returned
    calls,    \* the sub-parser calls that returned in the latest step, each with
              \* the cursor before and after
    heads,    \* for each loop that is running, the cursor at the start of its
              \* latest iteration (0: the loop is not running)
    run,      \* 1: the given text; 2: the text the first run printed
    printed   \* what work printed in the first run

vars == <<doc, input, pos, pc, tokens, cur, cat, csv, error, calls, heads, run, printed>>

Loops == {"top", "currencies", "categories", "items", "csv"}

NoHeads == [l \in Loops |-> 0]

NoLine == [text |-> <<>>, comment |-> <<>>]

NoBlock == [name |-> NoLine, entries |-> <<>>]

\* ctx: the caller ("currency": parse_currency, "item":
\* parse_trader_category_item_token); start: the cursor parse_csv_line was
\* given; outer, wrapper: the cursors parse_currency and the *_token wrapper
\* were given.
NoCsv == [values |-> <<>>, value |-> <<>>, comment |-> <<>>, ctx |-> "none",
          start |-> 0, outer |-> 0, wrapper |-> 0]

\* The parser's own state, as one record the steps below transform.
St == [pos |-> pos, pc |-> pc, tokens |-> tokens, cur |-> cur, cat |-> cat,
       csv |-> csv, error |-> error, calls |-> calls]

Fail(st, p, msg, cs) ==
    [st EXCEPT !.pos = p, !.pc = "err", !.error = msg, !.calls = cs]

\* ------------------------------------------------------------------------
\* process_file: one iteration of its loop
\* ------------------------------------------------------------------------

\* A header tag matched at top level: a block opens (CurrencyName, Trader) or
\* a marker token is complete (OpenFile, FileEnd).
OpenBlock(s, st, p, kind, cs) ==
    LET l == parse_line(s, p) IN
    [st EXCEPT !.pos = l.pos, !.pc = kind,
               !.cur = [name |-> Line(l), entries |-> <<>>],
               !.calls = cs \cup LineCall(p, l)]

Marker(s, st, p, type, cs) ==
    LET l == parse_line(s, p) IN
    [st EXCEPT !.pos = l.pos,
               !.tokens = Append(st.tokens, [type |-> type, line |-> Line(l)]),
               !.calls = cs \cup LineCall(p, l)]

\* process_file without the chars.next() of line 273: the cursor stays.
skip_char_stays(s, p) == p

\* Line 273: parse_token matched nothing, one character is skipped.
skip_char(s, p) == NextPos(s, p)

\* parse_token, and what process_file does with its result.
parse_token(s, st) ==
    LET p0 == st.pos
        p1 == consume_spaces(s, p0)
        cm == parse_comment(s, p1)
        cn == parse_currency_name_tag(s, p1)
        tr == parse_trader_tag(s, p1)
        of == parse_open_file_tag(s, p1)
        fe == parse_file_end_tag(s, p1)
        c1 == {CommentCall(p1, cm)}
        c2 == c1 \cup {NoneCall("parse_currency_name", p1, cn.pos)}
        c3 == c2 \cup {NoneCall("parse_trader", p1, tr.pos)}
        c4 == c3 \cup {NoneCall("parse_open_file", p1, of.pos)}
        c5 == c4 \cup {NoneCall("parse_file_end", p1, fe.pos),
                       NoneCall("parse_token", p0, fe.pos)}
    IN  IF cm.some
        THEN [st EXCEPT !.pos = cm.pos, !.tokens = Append(st.tokens, Comment(cm.msg)),
                        !.calls = c1]
        ELSE IF cn.res = "err" THEN Fail(st, cn.pos, "unclosed tag", c1)
        ELSE IF cn.res = "some" THEN OpenBlock(s, st, cn.pos, "currencies", c1)
        ELSE IF tr.res = "err" THEN Fail(st, tr.pos, "unclosed tag", c2)
        ELSE IF tr.res = "some" THEN OpenBlock(s, st, tr.pos, "categories", c2)
        ELSE IF of.res = "err" THEN Fail(st, of.pos, "unclosed tag", c3)
        ELSE IF of.res = "some" THEN Marker(s, st, of.pos, "OpenFile", c3)
        ELSE IF fe.res = "err" THEN Fail(st, fe.pos, "unclosed tag", c4)
        ELSE IF fe.res = "some" THEN Marker(s, st, fe.pos, "FileEnd", c4)
        ELSE [st EXCEPT !.pos = skip_char(s, fe.pos), !.calls = c5]

process_file_iter(s, st) ==
    IF Peek(s, st.pos) = EOF
    THEN [st EXCEPT !.pc = "done", !.calls = {}]
    ELSE parse_token(s, st)

\* ------------------------------------------------------------------------
\* parse_currency_name: one iteration of its loop (parse_currency_token)
\* ------------------------------------------------------------------------

CurrencyNameToken(st) ==
    [type |-> "CurrencyName", name |-> st.cur.name, currencies |-> st.cur.entries]

\* parse_currency_token returned None: the block is complete and process_file
\* pushes it.
close_currency_name(st, p, cs) ==
    [st EXCEPT !.pos = p, !.pc = "top",
               !.tokens = Append(st.tokens, CurrencyNameToken(st)),
               !.cur = NoBlock, !.csv = NoCsv, !.calls = cs]

parse_currency_token(s, st) ==
    LET p0 == st.pos
        cm == parse_comment(s, p0)
        cu == parse_currency_tag(s, cm.pos)
        c1 == {CommentCall(p0, cm)}
    IN  IF cm.some
        THEN [st EXCEPT !.pos = cm.pos,
                        !.cur.entries = Append(st.cur.entries, Comment(cm.msg)),
                        !.calls = c1]
        ELSE IF cu.res = "err" THEN Fail(st, cu.pos, "unclosed tag", c1)
        ELSE IF cu.res = "none"
        THEN close_currency_name(st, cu.pos,
                 c1 \cup {NoneCall("parse_currency", cm.pos, cu.pos),
                          NoneCall("parse_currency_token", p0, cu.pos)})
        ELSE [st EXCEPT !.pos = consume_only_spaces(s, cu.pos), !.pc = "csv",
                        !.csv = [NoCsv EXCEPT !.ctx = "currency", !.start = cu.pos,
                                              !.outer = cm.pos, !.wrapper = p0],
                        !.calls = c1]

\* ------------------------------------------------------------------------
\* parse_trader: one iteration of its loop (parse_trader_category_token)
\* ------------------------------------------------------------------------

TraderToken(st) ==
    [type |-> "Trader", name |-> st.cur.name, categories |-> st.cur.entries]

parse_trader_category_token(s, st) ==
    LET p0 == st.pos
        p1 == consume_spaces(s, p0)
        cm == parse_comment(s, p1)
        ct == parse_trader_category_tag(s, cm.pos)
        c1 == {CommentCall(p1, cm)}
    IN  IF cm.some
        THEN [st EXCEPT !.pos = cm.pos,
                        !.cur.entries = Append(st.cur.entries, Comment(cm.msg)),
                        !.calls = c1]
        ELSE IF ct.res = "err" THEN Fail(st, ct.pos, "unclosed tag", c1)
        ELSE IF ct.res = "none"
        THEN [st EXCEPT !.pos = ct.pos, !.pc = "top",
                        !.tokens = Append(st.tokens, TraderToken(st)),
                        !.cur = NoBlock,
                        !.calls = c1
                            \cup {NoneCall("parse_trader_category", cm.pos, ct.pos),
                                  NoneCall("parse_trader_category_token", p0, ct.pos)}]
        ELSE LET l == parse_line(s, ct.pos) IN
             [st EXCEPT !.pos = l.pos, !.pc = "items",
                        !.cat = [name |-> Line(l), entries |-> <<>>],
                        !.calls = c1 \cup LineCall(ct.pos, l)]

\* ------------------------------------------------------------------------
\* parse_trader_category: one iteration of its loop
\* (parse_trader_category_item_token, up to its call of parse_csv_line)
\* ------------------------------------------------------------------------

CategoryToken(st) ==
    [type |-> "Category", name |-> st.cat.name, items |-> st.cat.entries]

\* parse_trader_category_item_token returned None: the category is complete
\* and parse_trader pushes it.
close_category(st, p, cs) ==
    [st EXCEPT !.pos = p, !.pc = "categories",
               !.cur.entries = Append(st.cur.entries, CategoryToken(st)),
               !.cat = NoBlock, !.csv = NoCsv, !.calls = cs]

parse_trader_category_item_token(s, st) ==
    LET p0 == st.pos
        p1 == consume_spaces(s, p0)
        cm == parse_comment(s, p1)
        c1 == {CommentCall(p1, cm)}
    IN  IF cm.some
        THEN [st EXCEPT !.pos = cm.pos,
                        !.cat.entries = Append(st.cat.entries, Comment(cm.msg)),
                        !.calls = c1]
        ELSE [st EXCEPT !.pos = consume_only_spaces(s, cm.pos), !.pc = "csv",
                        !.csv = [NoCsv EXCEPT !.ctx = "item", !.start = cm.pos,
                                              !.outer = cm.pos, !.wrapper = p0],
                        !.calls = c1]

\* ------------------------------------------------------------------------
\* parse_csv_line: one iteration of its loop, and its return to the caller
\* ------------------------------------------------------------------------

\* value.trim(), pushed when not empty.
PushValue(values, value) ==
    IF Len(Trim(value)) > 0 THEN Append(values, Trim(value)) ELSE values

\* parse_csv_line returned Ok(None) with the cursor at p.
csv_none(st, p) ==
    LET c1 == {NoneCall("parse_csv_line", st.csv.start, p)} IN
    IF st.csv.ctx = "currency"
    THEN close_currency_name(st, p,
             c1 \cup {NoneCall("parse_currency", st.csv.outer, p),
                      NoneCall("parse_currency_token", st.csv.wrapper, p)})
    ELSE close_category(st, p,
             c1 \cup {NoneCall("parse_trader_category_item_token", st.csv.wrapper, p)})

\* parse_csv_line returned Some(CSVLine { values, comment }).
csv_some(st, p, values, comment) ==
    LET c1 == {Call("parse_csv_line", st.csv.start, p, "some", <<>>, values, comment)} IN
    IF st.csv.ctx = "currency"
    THEN [st EXCEPT !.pos = p, !.pc = "currencies", !.csv = NoCsv,
                    !.cur.entries = Append(st.cur.entries,
                        [type |-> "Currency", values |-> values, comment |-> comment]),
                    !.calls = c1]
    ELSE IF ~CategoryItemOk(values)
    THEN Fail([st EXCEPT !.csv = NoCsv], p, "malformed row", c1)
    ELSE [st EXCEPT !.pos = p, !.pc = "items", !.csv = NoCsv,
                    !.cat.entries = Append(st.cat.entries, CategoryItem(values, comment)),
                    !.calls = c1]

\* Lines 601-605, after the loop.
csv_finish(st, p, values, comment) ==
    IF values = <<>> /\ comment = <<>>
    THEN csv_none(st, p)
    ELSE csv_some(st, p, values, comment)

\* The loop goes on after a trailing comment (lines 591-593 have no break).
csv_after_comment(s, st, cm) ==
    [st EXCEPT !.pos = cm.pos,
               !.csv.comment = IF cm.some THEN <<cm.msg>> ELSE <<>>,
               !.calls = {CommentCall(st.pos, cm)}]

parse_csv_line_iter(s, st) ==
    LET p == st.pos
        c == Peek(s, p)
    IN  IF c = EOF THEN csv_finish(st, p, st.csv.values, st.csv.comment)
        ELSE IF c = "<" THEN csv_none(st, p)
        ELSE IF c \in LineEnd
        THEN csv_finish(st, p + 1, PushValue(st.csv.values, st.csv.value), st.csv.comment)
        ELSE IF c = ","
        THEN [st EXCEPT !.pos = p + 1, !.calls = {},
                        !.csv.values = PushValue(st.csv.values, st.csv.value),
                        !.csv.value = <<>>]
        ELSE IF c = "/" THEN csv_after_comment(s, st, parse_comment(s, p))
        ELSE [st EXCEPT !.pos = p + 1, !.calls = {},
                        !.csv.value = Append(st.csv.value, c)]

\* ------------------------------------------------------------------------
\* Input texts: the contents of the file the tool is given
\* ------------------------------------------------------------------------

MaxLines == 2
MaxCats == 2
MaxRows == 2

Tag(kw) == <<"<">> \o kw \o <<">">>

NL == <<"\n">>

SlashSlash == <<"/", "/">>

\* (1) Free text: up to MaxLines lines out of LineSet, the last one with or
\* without its newline.
LineSet == <<
    Tag(KwTrader) \o <<" ", "B">>,
    Tag(KwCategory) \o <<" ", "C">>,
    <<"a", ",", "b", ",", "c", ",", "d">>,
    Tag(KwCurrency),
    Tag(KwCurrencyName) \o <<" ", "U">>,
    Tag(KwCurrency) \o <<" ", "1", ",", "2">>,
    Tag(KwOpenFile) \o <<" ", "f">>,
    Tag(KwFileEnd),
    SlashSlash \o <<" ", "m">>,
    SlashSlash,
    <<"a", "/", "b">>,
    <<"x", " ">> \o SlashSlash \o <<" ", "m">>,
    Tag(KwFileEnd) \o <<" ", "e", " ">> \o SlashSlash \o <<" ", "m">>,
    <<>>,
    <<"<", "T", "r", "a">>,
    <<"a", "b">> >>

LineDocs ==
    { [fam |-> "lines", lines |-> ls, nl |-> nl] :
        ls \in UNION { [1..k -> 1..Len(LineSet)] : k \in 0..MaxLines },
        nl \in BOOLEAN }

RECURSIVE LinesText(_, _)
LinesText(ls, nl) ==
    IF ls = <<>> THEN <<>>
    ELSE LineSet[Head(ls)]
         \o (IF Len(ls) > 1 \/ nl THEN NL ELSE <<>>)
         \o LinesText(Tail(ls), nl)

\* (2) A trader: a <Trader> header line, cats <Category> header lines, each
\* followed by rows rows of the same kind.  Row j has class ClassOf[j].
TraderNames == { <<>>, <<"B">>, <<"B", " ", "o">> }

CatNames == <<<<"P">>, <<"Q">>, <<"R">>, <<"S">>>>

ClassOf == <<<<"a">>, <<"b">>, <<"c">>, <<"d">>>>

RowKinds == {"plain", "spaced", "three", "five", "hole", "blank", "one",
             "comment", "commentgap"}

\* The fields of row j, as written between the commas.
RowFields(kind, j) ==
    CASE kind = "spaced" -> <<<<" ">> \o ClassOf[j] \o <<" ">>, <<"1", " ", "0">>,
                              <<" ", "2">>, <<"3", " ">>>>
      [] kind = "three"  -> <<ClassOf[j], <<"1">>, <<"2">>>>
      [] kind = "five"   -> <<ClassOf[j], <<"1">>, <<"2">>, <<"3">>, <<"4">>>>
      [] kind = "hole"   -> <<ClassOf[j], <<>>, <<"1">>, <<"2">>, <<"3">>>>
      [] kind = "blank"  -> <<ClassOf[j], <<" ">>, <<"2">>, <<"3">>>>
      [] kind = "one"    -> <<ClassOf[j]>>
      [] OTHER           -> <<ClassOf[j], <<"1">>, <<"2">>, <<"3">>>>

\* What follows the fields on the row's line: nothing, a comment, or a
\* comment and then a blank line.
RowTail(kind) ==
    CASE kind = "comment"    -> <<" ">> \o SlashSlash \o <<" ", "m">>
      [] kind = "commentgap" -> <<" ">> \o SlashSlash \o <<" ", "m">> \o NL
      [] OTHER               -> <<>>

RECURSIVE Join(_)
Join(fs) ==
    IF Len(fs) <= 1 THEN Concat(fs) ELSE Head(fs) \o <<",">> \o Join(Tail(fs))

RowText(kind, j) == Join(RowFields(kind, j)) \o RowTail(kind)

TraderDocs ==
    { [fam |-> "trader", name |-> nm, cats |-> n, rows |-> m, kind |-> k, nl |-> nl] :
        nm \in TraderNames, n \in 0..MaxCats, m \in 0..MaxRows, k \in RowKinds,
        nl \in BOOLEAN }

RECURSIVE RowsText(_, _, _)
RowsText(kind, j, m) ==
    IF j > m THEN <<>>
    ELSE Spaces(8) \o RowText(kind, j) \o NL \o RowsText(kind, j + 1, m)

CategoryLine(i) == Spaces(4) \o Tag(KwCategory) \o <<" ">> \o CatNames[i] \o NL

RECURSIVE CatsText(_, _, _, _)
CatsText(kind, i, n, m) ==
    IF i > n THEN <<>>
    ELSE CategoryLine(i) \o RowsText(kind, 1, m) \o CatsText(kind, i + 1, n, m)

TraderLine(d) ==
    Tag(KwTrader) \o (IF d.name = <<>> THEN <<>> ELSE <<" ">> \o d.name) \o NL

DropLast(s) == SubSeq(s, 1, Len(s) - 1)

TraderText(d) ==
    LET all == TraderLine(d) \o CatsText(d.kind, 1, d.cats, d.rows)
    IN IF d.nl THEN all ELSE DropLast(all)

\* (3) Stray characters between two top-level constructs.
Constructs == <<
    Tag(KwOpenFile) \o <<" ", "f">> \o NL,
    Tag(KwFileEnd) \o <<" ", "e">> \o NL,
    Tag(KwTrader) \o <<" ", "B">> \o NL,
    Tag(KwCurrencyName) \o <<" ", "U">> \o NL,
    Tag(KwCurrencyName) \o <<" ", "U">> \o NL \o Tag(KwCurrency) \o <<" ", "1", ",", "2">> \o NL,
    Tag(KwTrader) \o <<" ", "B">> \o NL \o Tag(KwCategory) \o <<" ", "C">> \o NL
        \o <<"a", ",", "1", ",", "2", ",", "3">> \o NL >>

Strays == <<
    <<"x">>,
    <<"x", "y">>,
    <<"x", " ", "y">>,
    <<">">>,
    <<"x", ",", "y">>,
    <<"x", "/", "y">>,
    <<"/">> >>

StrayDocs ==
    { [fam |-> "stray", t1 |-> a, s |-> b, t2 |-> c] :
        a \in 1..Len(Constructs), b \in 1..Len(Strays), c \in 1..Len(Constructs) }

StrayText(d) == Constructs[d.t1] \o Strays[d.s] \o Constructs[d.t2]

\* (4) A comment line where a construct is expected: at top level, inside a
\* currency table, inside a trader, inside a category.
Places == <<
    <<>>,
    Tag(KwCurrencyName) \o <<" ", "U">> \o NL,
    Tag(KwTrader) \o <<" ", "B">> \o NL,
    Tag(KwTrader) \o <<" ", "B">> \o NL \o Tag(KwCategory) \o <<" ", "C">> \o NL >>

Indents == << <<>>, <<" ", " ">>, <<"\t">> >>

Messages == << <<>>, <<" ">>, <<"m">>, <<" ", "m">>, <<" ", "m", " ", "n", " ">>, <<"/", "m">> >>

Followers == << <<>>, <<"a", "b">> \o NL, Tag(KwFileEnd) \o <<" ", "e">> \o NL >>

CommentDocs ==
    { [fam |-> "comment", place |-> a, indent |-> b, msg |-> c, after |-> e] :
        a \in 1..Len(Places), b \in 1..Len(Indents), c \in 1..Len(Messages),
        e \in 1..Len(Followers) }

CommentText(d) ==
    Places[d.place] \o Indents[d.indent] \o SlashSlash \o Messages[d.msg] \o NL
    \o Followers[d.after]

\* ------------------------------------------------------------------------
\* Initial state: work has been called and has read nothing yet
\* ------------------------------------------------------------------------

Init ==
    /\ doc = [fam |-> "none"]
    /\ input = <<>>
    /\ pos = 1
    /\ pc = "start"
    /\ tokens = <<>>
    /\ cur = NoBlock
    /\ cat = NoBlock
    /\ csv = NoCsv
    /\ error = "none"
    /\ calls = {}
    /\ heads = NoHeads
    /\ run = 1
    /\ printed = <<>>

\* ------------------------------------------------------------------------
\* Actions
\* ------------------------------------------------------------------------

\* The loops that are running when the parser is at pc.
Running(at, ctx) ==
    CASE at = "top" -> {"top"}
      [] at = "currencies" -> {"top", "currencies"}
      [] at = "categories" -> {"top", "categories"}
      [] at = "items" -> {"top", "categories", "items"}
      [] at = "csv" -> IF ctx = "currency" THEN {"top", "currencies", "csv"}
                       ELSE {"top", "categories", "items", "csv"}
      [] OTHER -> {}

Step(n) ==
    /\ heads' = [l \in Loops |->
                    IF l \notin Running(n.pc, n.csv.ctx) THEN 0
                    ELSE IF l = pc THEN pos
                    ELSE heads[l]]
    /\ pos' = n.pos
    /\ pc' = n.pc
    /\ tokens' = n.tokens
    /\ cur' = n.cur
    /\ cat' = n.cat
    /\ csv' = n.csv
    /\ error' = n.error
    /\ calls' = n.calls
    /\ UNCHANGED <<doc, input, run, printed>>

\* read_file returns the contents and process_file starts on them (lines
\* 27-28, 267-268).
Load(d, text) ==
    /\ doc' = d
    /\ input' = text
    /\ pc' = "top"
    /\ calls' = {}
    /\ UNCHANGED <<pos, tokens, cur, cat, csv, error, heads, run, printed>>

ReadFile ==
    /\ pc = "start"
    /\ \E fam \in {"lines", "trader", "stray", "comment"} :
        CASE fam = "lines" -> \E d \in LineDocs : Load(d, LinesText(d.lines, d.nl))
          [] fam = "trader" -> \E d \in TraderDocs : Load(d, TraderText(d))
          [] fam = "stray" -> \E d \in StrayDocs : Load(d, StrayText(d))
          [] fam = "comment" -> \E d \in CommentDocs : Load(d, CommentText(d))

ProcessFileIter == pc = "top" /\ Step(process_file_iter(input, St))

CurrencyNameIter == pc = "currencies" /\ Step(parse_currency_token(input, St))

TraderIter == pc = "categories" /\ Step(parse_trader_category_token(input, St))

TraderCategoryIter == pc = "items" /\ Step(parse_trader_category_item_token(input, St))

CsvLineIter == pc = "csv" /\ Step(parse_csv_line_iter(input, St))

\* work prints the tokens of a successful run; the tool is then run on what
\* it printed.
Rerun ==
    /\ pc = "done"
    /\ run = 1
    /\ printed' = PrintAll(tokens)
    /\ input' = PrintAll(tokens)
    /\ run' = 2
    /\ pos' = 1
    /\ pc' = "top"
    /\ tokens' = <<>>
    /\ calls' = {}
    /\ heads' = NoHeads
    /\ UNCHANGED <<doc, cur, cat, csv, error>>

Next ==
    \/ ReadFile
    \/ ProcessFileIter
    \/ CurrencyNameIter
    \/ TraderIter
    \/ TraderCategoryIter
    \/ CsvLineIter
    \/ Rerun

Spec == Init /\ [][Next]_vars

\* No action is enabled: the run on the given text failed, or the run on the
\* printed text has returned.
Halted == pc = "err" \/ (pc = "done" /\ run = 2)

\* The tool is one sequential program: while it has a step to take, it takes
\* it.  This is weak fairness of Next, with ENABLED <<Next>>_vars
\* written as the state predicate ~Halted: every state that is not Halted
\* satisfies the guard of exactly one action of Next, and that action is
\* defined for every state.
FairSpec == Spec /\ ([]<>Halted \/ []<><<Next>>_vars)

\* ------------------------------------------------------------------------
\* Properties
\* ------------------------------------------------------------------------

Finished == pc \in {"done", "err"}

\* The first run (on the given text) has returned.
FirstDone == run = 1 /\ Finished

\* The first position at or after p whose character is in stop (Len + 1 if
\* there is none).
RECURSIVE FirstOf(_, _, _)
FirstOf(s, p, stop) ==
    IF p <= Len(s) /\ s[p] \notin stop THEN FirstOf(s, p + 1, stop) ELSE p

\* The text of the source line from p on, up to a character of stop.
RestOfLine(s, p, stop) == SubSeq(s, p, FirstOf(s, p, stop \cup LineEnd) - 1)

PlainLine(text) == [text |-> text, comment |-> <<>>]

\* C1: parse-then-format is idempotent on the canonical form: when the first
\* run succeeds and prints c, the run on c succeeds too and prints c again.
C1_ParseFormatIdempotent ==
    run = 2 => /\ pc # "err"
               /\ pc = "done" => PrintAll(tokens) = printed

\* C1, the three cases it names, each alone: a category of two or more items,
\* an item with a trailing comment, a header line with a trailing comment.
C1_TwoItems ==
    (run = 2 /\ doc.fam = "trader" /\ doc.kind = "plain" /\ doc.nl
        /\ doc.name = <<"B">> /\ doc.cats = 1 /\ doc.rows >= 2)
    => C1_ParseFormatIdempotent

C1_ItemComment ==
    (run = 2 /\ doc.fam = "trader" /\ doc.kind = "commentgap" /\ doc.nl
        /\ doc.name = <<"B">> /\ doc.cats = 1 /\ doc.rows = 1)
    => C1_ParseFormatIdempotent

C1_HeaderComment ==
    (run = 2 /\ doc.fam = "lines" /\ doc.lines = <<13>> /\ doc.nl)
    => C1_ParseFormatIdempotent

\* C2: a row of a category that has fewer or more than 4 comma-separated
\* fields (empty ones counted) makes process_file return the malformed-row
\* error.
WrongCount == {"three", "five", "hole", "one"}

InCategory == doc.fam = "trader" /\ doc.name # <<>> /\ doc.cats >= 1 /\ doc.rows >= 1

C2_WrongFieldCountIsError ==
    (FirstDone /\ InCategory /\ doc.kind \in WrongCount)
    => (pc = "err" /\ error = "malformed row")

\* C3: stray characters (no '<', no "//") between two top-level constructs
\* are dropped: the result is Ok with the token of the first construct
\* followed by the token of the second.
ConstructToken == <<
    [type |-> "OpenFile", line |-> PlainLine(<<"f">>)],
    [type |-> "FileEnd", line |-> PlainLine(<<"e">>)],
    [type |-> "Trader", name |-> PlainLine(<<"B">>), categories |-> <<>>],
    [type |-> "CurrencyName", name |-> PlainLine(<<"U">>), currencies |-> <<>>],
    [type |-> "CurrencyName", name |-> PlainLine(<<"U">>),
     currencies |-> <<[type |-> "Currency", values |-> <<<<"1">>, <<"2">>>>,
                       comment |-> <<>>]>>],
    [type |-> "Trader", name |-> PlainLine(<<"B">>),
     categories |-> <<[type |-> "Category", name |-> PlainLine(<<"C">>),
                       items |-> <<[type |-> "CategoryItem", class |-> <<"a">>,
                                    amount |-> <<"1">>, buy_value |-> <<"2">>,
                                    sell_value |-> <<"3">>, comment |-> <<>>]>>]>>] >>

C3_StrayCharactersDropped ==
    (FirstDone /\ doc.fam = "stray")
    => (pc = "done" /\ tokens = <<ConstructToken[doc.t1], ConstructToken[doc.t2]>>)

\* C3 without a '/' among the stray characters.
C3_NoSlash ==
    (doc.fam = "stray" /\ \A i \in 1..Len(Strays[doc.s]) : Strays[doc.s][i] # "/")
    => C3_StrayCharactersDropped

\* C4: the parse_comment call that takes a comment line placed where a
\* construct is expected returns a Comment whose message is the text of
\* that line after "//" and its leading blanks, rendered as "// " and that
\* message.
SlashAt(d) == Len(Places[d.place]) + Len(Indents[d.indent]) + 1

C4_CommentVerbatim ==
    (run = 1 /\ doc.fam = "comment")
    => \A c \in calls :
          (c.fn = "parse_comment" /\ c.before <= SlashAt(doc) /\ SlashAt(doc) < c.after)
          => /\ c.res = "some"
             /\ c.text = TrimStart(Messages[doc.msg])
             /\ fmt_Comment(c.text) = <<"/", "/", " ">> \o TrimStart(Messages[doc.msg])

\* C5: a <Trader> header line, then <Category> header lines each followed by
\* rows of four non-blank fields, parses to one Trader holding the categories
\* in order, each holding its items in order, fields trimmed, no comment.
ExpectedItem(kind, j, comment) ==
    LET f == RowFields(kind, j) IN
    [type |-> "CategoryItem", class |-> Trim(f[1]), amount |-> Trim(f[2]),
     buy_value |-> Trim(f[3]), sell_value |-> Trim(f[4]), comment |-> comment]

ExpectedTrader(d, comment) ==
    [type |-> "Trader", name |-> PlainLine(Trim(d.name)),
     categories |->
        [i \in 1..d.cats |->
            [type |-> "Category", name |-> PlainLine(CatNames[i]),
             items |-> [j \in 1..d.rows |-> ExpectedItem(d.kind, j, comment)]]]]

C5_TraderTree ==
    (FirstDone /\ doc.fam = "trader" /\ doc.kind \in {"plain", "spaced"} /\ doc.nl)
    => (pc = "done" /\ tokens = <<ExpectedTrader(doc, <<>>)>>)

\* C5 for traders whose header line has a name.
C5_NamedTrader == (doc.fam = "trader" /\ doc.name # <<>>) => C5_TraderTree

\* C6: a sub-parser that returns Ok(None) leaves the cursor where it was
\* when the sub-parser was called.  parse_token, which skips the white space
\* between the top-level constructs, is not among them.
SubParsers ==
    { "parse_comment", "parse_currency_name", "parse_currency", "parse_trader",
      "parse_trader_category", "parse_open_file", "parse_file_end",
      "parse_csv_line", "parse_currency_token", "parse_trader_category_token",
      "parse_trader_category_item_token" }

C6_NoMatchConsumesNothing ==
    \A c \in calls :
        (c.fn \in SubParsers /\ c.res = "none") => c.after = c.before

\* C7: a "//" comment after the four fields of a row ends the row: the
\* parse_csv_line call given that row returns the four fields and the
\* comment.
FirstRowAt(d) == Len(TraderLine(d)) + Len(CategoryLine(1)) + 8 + 1

C7_CommentEndsRow ==
    (run = 1 /\ InCategory /\ doc.kind \in {"comment", "commentgap"})
    => \A c \in calls :
          (c.fn = "parse_csv_line" /\ c.before = FirstRowAt(doc))
          => /\ c.res = "some"
             /\ c.values = RowFields(doc.kind, 1)
             /\ c.comment = <<<<"m">>>>

\* C8: parse_comment returns a Comment only when, after the leading
\* whitespace, the next two characters are both '/'.
RECURSIVE SkipWhite(_, _)
SkipWhite(s, p) ==
    IF p <= Len(s) /\ s[p] \in WhiteSpace THEN SkipWhite(s, p + 1) ELSE p

C8_CommentNeedsTwoSlashes ==
    \A c \in calls :
        (c.fn = "parse_comment" /\ c.res = "some")
        => LET q == SkipWhite(input, c.before)
           IN Peek(input, q) = "/" /\ Peek(input, q + 1) = "/"

\* C9: the text of a header Line is the rest of the tag's own source line,
\* up to the line end or the first '/', without surrounding whitespace.
C9_HeaderTextTrimmed ==
    \A c \in calls :
        c.fn = "parse_line" => c.text = Trim(RestOfLine(input, c.before, {"/"}))

\* C10: process_file terminates: every iteration of a loop that goes on to a
\* next iteration has advanced the cursor, Ok(tokens) is returned with the
\* cursor at the end of the input, and every run returns.
LoopsAdvance == \A l \in Loops : (pc = l /\ heads[l] # 0) => pos > heads[l]

OkAtEnd == pc = "done" => pos = Len(input) + 1

C10_Terminates == [](LoopsAdvance /\ OkAtEnd) /\ (~Finished ~> Finished)

\* A trader of two categories of two rows each has been parsed: every loop
\* but the currency loop has run more than once.
C10_Witness ==
    /\ FirstDone
    /\ pc = "done"
    /\ doc.fam = "trader"
    /\ doc.kind = "plain"
    /\ doc.cats >= 2
    /\ doc.rows >= 2
    /\ tokens = <<ExpectedTrader(doc, <<>>)>>

====
